---- MODULE Spec2Model ----
(***************************************************************************)
(* purge-deps (denisbrodbeck/purge-npm): main() builds the task registry,  *)
(* Walk() traverses a directory tree, fires the first matching task of a   *)
(* directory and does not descend into a matched directory; after a        *)
(* successful non-dry traversal main() clears the global caches.           *)
(*                                                                         *)
(* File names are strings; every predicate on a name is computed on the    *)
(* name's bytes (Bytes), and ioutil.ReadDir's ordering is the byte-wise    *)
(* ordering of the names.  A path is the sequence of names below the root  *)
(* path given on the command line (the root is the empty sequence).        *)
(***************************************************************************)
EXTENDS Integers, Sequences, FiniteSets, TLC

VARIABLES
    dirs,      \* the directories that exist (set of paths)
    files,     \* the non-directory entries: [dir, name, kind]
    dirs0,     \* the directories at program start
    files0,    \* the non-directory entries at program start
    flagDry,   \* the -dry flag
    path_tools,\* the executables that exec.LookPath resolves
    tasks,     \* main's tasks slice: the available runners, in order
    pc,        \* position of main
    stack,     \* the active Walk calls past their first loop, outermost first
    walkErr,   \* the error travelling up the Walk calls: [msg, path]
    exitCode,  \* the process' exit status
    stdout,    \* the lines written to os.Stdout
    procs,     \* the external commands run: [cmd, dir, ok]
    listed,    \* the ioutil.ReadDir calls, in order: [path, ok]
    runs       \* the Task.Run calls, in order: [task, path, res, err]

vars == <<dirs, files, dirs0, files0, flagDry, path_tools, tasks, pc, stack,
          walkErr, exitCode, stdout, procs, listed, runs>>

-----------------------------------------------------------------------------
(* Bounds of the model. *)

\* the entries of the tree below the root: directories, plain files and
\* symbolic links together
MaxEntries == 4

-----------------------------------------------------------------------------
(* Names and their bytes. *)

DirNames == {"node_modules", "vendor"}

FileNames == {"Cargo.toml", "a.SLN", "composer.json", "package.json"}

LinkNames == {"package.json", "vendor"}

Names == DirNames \cup FileNames \cup LinkNames

Bytes(s) ==
    CASE s = "Cargo.toml"    -> <<67, 97, 114, 103, 111, 46, 116, 111, 109, 108>>
      [] s = "cargo.toml"    -> <<99, 97, 114, 103, 111, 46, 116, 111, 109, 108>>
      [] s = "a.SLN"         -> <<97, 46, 83, 76, 78>>
      [] s = "composer.json" -> <<99, 111, 109, 112, 111, 115, 101, 114, 46, 106, 115, 111, 110>>
      [] s = "package.json"  -> <<112, 97, 99, 107, 97, 103, 101, 46, 106, 115, 111, 110>>
      [] s = "node_modules"  -> <<110, 111, 100, 101, 95, 109, 111, 100, 117, 108, 101, 115>>
      [] s = "vendor"        -> <<118, 101, 110, 100, 111, 114>>
      [] s = ".csproj"       -> <<46, 99, 115, 112, 114, 111, 106>>
      [] s = ".sln"          -> <<46, 115, 108, 110>>

\* strings.ToLower on ASCII bytes
ToLower(b) == [i \in 1..Len(b) |-> IF b[i] >= 65 /\ b[i] <= 90 THEN b[i] + 32 ELSE b[i]]

\* strings.HasSuffix
HasSuffix(b, suffix) ==
    /\ Len(b) >= Len(suffix)
    /\ SubSeq(b, Len(b) - Len(suffix) + 1, Len(b)) = suffix

\* Go's string comparison a < b (byte-wise lexicographic)
StringLess(a, b) ==
    \E i \in 1..(Len(a) + 1) :
        /\ i <= Len(b)
        /\ \A j \in 1..(i - 1) : a[j] = b[j]
        /\ (i = Len(a) + 1 \/ a[i] < b[i])

-----------------------------------------------------------------------------
(* Paths. *)

RootPath == <<>>

\* filepath.Join(path, name)
Join(path, name) == Append(path, name)

\* filepath.Dir(path)
Dir(path) == SubSeq(path, 1, Len(path) - 1)

\* filepath.Base(path)
Base(path) == path[Len(path)]

IsPrefix(p, q) == Len(p) <= Len(q) /\ SubSeq(q, 1, Len(p)) = p

IsProperPrefix(p, q) == IsPrefix(p, q) /\ p # q

\* an error value: its message and the path the message names; Nil is no error
Err(msg, path) == [msg |-> msg, path |-> IF msg = "nil" THEN <<>> ELSE path]

Nil == Err("nil", <<>>)

-----------------------------------------------------------------------------
(* The runners of main, in registration order. *)

runners == <<"composer", "npm", "cargo", "dotnet">>

Tools == {"composer", "npm", "cargo", "dotnet"}

\* runner.available: exec.LookPath(tool) succeeds
Available(r) == r \in path_tools

\* runner.matches
Matches(r, name) ==
    CASE r = "composer" -> Bytes(name) = Bytes("composer.json")
      [] r = "npm"      -> Bytes(name) = Bytes("package.json")
      [] r = "cargo"    -> Bytes(name) = Bytes("Cargo.toml") \/ Bytes(name) = Bytes("cargo.toml")
      [] r = "dotnet"   -> \/ HasSuffix(ToLower(Bytes(name)), Bytes(".csproj"))
                           \/ HasSuffix(ToLower(Bytes(name)), Bytes(".sln"))

-----------------------------------------------------------------------------
(* The file system as ioutil.ReadDir and os.RemoveAll see it. *)

\* the os.FileInfo values of the entries of directory p; IsDir() is false
\* for plain files, symbolic links, devices and pipes alike (Lstat)
DirEntries(p) ==
    {[name |-> Base(d), isDir |-> TRUE] :
        d \in {x \in dirs : Len(x) = Len(p) + 1 /\ Dir(x) = p}}
    \cup
    {[name |-> f.name, isDir |-> FALSE] : f \in {x \in files : x.dir = p}}

\* sort.Slice(list, func(i, j) { return list[i].Name() < list[j].Name() })
RECURSIVE SortByName(_)
SortByName(S) ==
    IF S = {} THEN <<>>
    ELSE LET m == CHOOSE x \in S :
                    \A y \in S \ {x} : StringLess(Bytes(x.name), Bytes(y.name))
         IN  <<m>> \o SortByName(S \ {m})

\* ioutil.ReadDir(p), when it succeeds
ReadDir(p) == SortByName(DirEntries(p))

\* what os.RemoveAll(target) leaves when it removes everything
DirsWithout(target) == {d \in dirs : ~IsPrefix(target, d)}

FilesWithout(target) ==
    {f \in files : ~IsPrefix(target, f.dir) /\ Join(f.dir, f.name) # target}

Exists(target) ==
    target \in dirs \/ \E f \in files : Join(f.dir, f.name) = target

\* the results os.RemoveAll(target) can give: nil when the target is absent
\* or was removed, otherwise the error of the failing system call (what a
\* failing removal leaves lies in a matched directory, which is not read
\* again: the tree is kept as it was)
RemoveAllResults(target) ==
    IF Exists(target) THEN {"nil", "EPERM"} ELSE {"nil"}

\* os.IsNotExist(err)
IsNotExist(err) == err = "ENOENT"

-----------------------------------------------------------------------------
(* Walk: the first loop. *)

\* the inner loop of the first pass: the first task, in slice order, whose
\* Matches accepts the name (0 when none does)
MatchingTask(name, tks) ==
    LET K == {k \in 1..Len(tks) : Matches(tks[k], name)}
    IN  IF K = {} THEN 0 ELSE CHOOSE k \in K : \A j \in K : k <= j

\* a task-major scan: the first task that has any matching file
FirstMatchTaskMajor(entries, tks) ==
    LET K == {k \in 1..Len(tks) :
                \E i \in 1..Len(entries) :
                    ~entries[i].isDir /\ Matches(tks[k], entries[i].name)}
    IN  IF K = {} THEN [found |-> FALSE]
        ELSE LET k == CHOOSE x \in K : \A j \in K : x <= j
                 I == {i \in 1..Len(entries) :
                         ~entries[i].isDir /\ Matches(tks[k], entries[i].name)}
                 i == CHOOSE x \in I : \A j \in I : x <= j
             IN  [found |-> TRUE, name |-> entries[i].name, task |-> tks[k]]

\* the first pass: the first entry, in listing order, that is no directory
\* and that some task matches, with the first task matching it
FirstMatch(entries, tks) ==
    LET I == {i \in 1..Len(entries) :
                ~entries[i].isDir /\ MatchingTask(entries[i].name, tks) # 0}
    IN  IF I = {} THEN [found |-> FALSE]
        ELSE LET i == CHOOSE x \in I : \A j \in I : x <= j
             IN  [found |-> TRUE, name |-> entries[i].name,
                  task |-> tks[MatchingTask(entries[i].name, tks)]]

-----------------------------------------------------------------------------
(* The run closures of the runners. *)

\* the closures as registered, whatever the flag
RunAsRegistered(r) == r

\* the closure runners[key].run holds when Walk starts: the print closure
\* when -dry is set
RunClosure(r) == IF flagDry THEN "print" ELSE r

\* composer removes the wrong sibling
RemoveTargetSwapped(r, path) ==
    Join(Dir(path), IF r = "composer" THEN "node_modules" ELSE "vendor")

\* the directory the composer and npm closures remove
RemoveTarget(r, path) ==
    Join(Dir(path), IF r = "composer" THEN "vendor" ELSE "node_modules")

\* every failing command is an error
RunResultStrict(c, res) ==
    CASE c = "print"   -> "nil"
      [] c \in {"composer", "npm"} -> IF res # "nil" THEN "failed to remove path" ELSE "nil"
      [] c \in {"cargo", "dotnet"} -> IF res # "nil" THEN "failed to run command" ELSE "nil"

\* the error a closure returns, given the result res of its system call
RunResult(c, res) ==
    CASE c = "print"   -> "nil"
      [] c \in {"composer", "npm"} ->
            IF res # "nil" /\ IsNotExist(res) THEN "failed to remove path" ELSE "nil"
      [] c = "cargo"   -> IF res # "nil" THEN "failed to run command" ELSE "nil"
      [] c = "dotnet"  -> "nil"

\* the results the system call of closure c can give on path
SysResults(c, path) ==
    CASE c = "print"   -> {"nil"}
      [] c \in {"composer", "npm"} -> RemoveAllResults(RemoveTarget(c, path))
      [] c \in {"cargo", "dotnet"} -> {"nil", "exit status 1"}

\* the command line of the clean command (what the command removes are
\* build outputs in a matched directory, which is not read again)
CleanCmd(c) == IF c = "cargo" THEN "cargo clean" ELSE "dotnet clean --nologo"

\* Run(path) of task r, its system call giving res
Run(r, path, res) ==
    LET c == RunClosure(r) IN
    /\ res \in SysResults(c, path)
    /\ stdout' = Append(stdout, path) \o (IF c = "print" THEN <<path>> ELSE <<>>)
    /\ IF c \in {"composer", "npm"} /\ res = "nil"
          THEN /\ dirs' = DirsWithout(RemoveTarget(c, path))
               /\ files' = FilesWithout(RemoveTarget(c, path))
          ELSE UNCHANGED <<dirs, files>>
    /\ procs' = IF c \in {"cargo", "dotnet"}
                   THEN Append(procs, [cmd |-> CleanCmd(c), dir |-> Dir(path),
                                       ok |-> res = "nil"])
                   ELSE procs
    /\ runs' = Append(runs, [task |-> r, path |-> path, res |-> res,
                             err |-> RunResult(c, res)])
    /\ walkErr' = Err(RunResult(c, res),
                      IF c \in {"composer", "npm"} THEN RemoveTarget(c, path) ELSE Dir(path))

-----------------------------------------------------------------------------
(* Walk. *)

\* the error Walk makes of a failing ioutil.ReadDir
ReadDirErrorSwallowed(path) == Nil

ReadDirError(path) == Err("failed to read file entries of directory", path)

\* a matched directory is walked like any other
AfterMatchDescend(base, frame) == Append(base, frame)

\* `return task.Run(...)`: the call of a matched directory ends, its second
\* loop never runs
AfterMatch(base, frame) == base

\* Walk(path, tasks) called with the calls of `base` active: ReadDir, the
\* first loop and, on a match, the task; without a match the call stays
\* active for its second loop
WalkCall(path, base) ==
    \E readOk \in BOOLEAN :
        /\ listed' = Append(listed, [path |-> path, ok |-> readOk])
        /\ IF ~readOk
              THEN /\ walkErr' = ReadDirError(path)
                   /\ stack' = base
                   /\ UNCHANGED <<dirs, files, stdout, procs, runs>>
              ELSE LET entries == ReadDir(path)
                       m == FirstMatch(entries, tasks)
                       frame == [path |-> path, entries |-> entries, i |-> 0]
                   IN  IF m.found
                          THEN /\ \E res \in SysResults(RunClosure(m.task), Join(path, m.name)) :
                                     Run(m.task, Join(path, m.name), res)
                               /\ stack' = AfterMatch(base, frame)
                          ELSE /\ stack' = Append(base, frame)
                               /\ walkErr' = Nil
                               /\ UNCHANGED <<dirs, files, stdout, procs, runs>>

\* the next directory entry of the second loop of frame f (0 when none)
NextDir(f) ==
    LET J == {j \in (f.i + 1)..Len(f.entries) : f.entries[j].isDir}
    IN  IF J = {} THEN 0 ELSE CHOOSE j \in J : \A k \in J : j <= k

Top == stack[Len(stack)]

Caller == SubSeq(stack, 1, Len(stack) - 1)

-----------------------------------------------------------------------------
(* The program. *)

successExitCode == 0

errorExitCode == 1

errorParseExitCode == 2

\* the directory trees of at most n directories, the root included
RECURSIVE TreesUpTo(_)
TreesUpTo(n) ==
    IF n <= 1 THEN {{RootPath}}
    ELSE LET T == TreesUpTo(n - 1)
         IN  T \cup UNION {{D \cup {Join(p, name)} : p \in D, name \in DirNames} :
                             D \in T}

\* the non-directory entries a tree D can hold
Candidates(D) ==
    {e \in [dir : D, name : FileNames, kind : {"file"}]
           \cup [dir : D, name : LinkNames, kind : {"symlink"}] :
        Join(e.dir, e.name) \notin D}

\* the sets of at most n non-directory entries, no two of one name in one
\* directory
RECURSIVE FileSetsUpTo(_, _)
FileSetsUpTo(D, n) ==
    IF n <= 0 THEN {{}}
    ELSE LET S == FileSetsUpTo(D, n - 1)
         IN  S \cup UNION {{F \cup {e} :
                                e \in {c \in Candidates(D) : \A f \in F :
                                           f.dir = c.dir => f.name # c.name}} :
                             F \in S}

Init ==
    /\ dirs \in TreesUpTo(MaxEntries + 1)
    /\ files \in FileSetsUpTo(dirs, MaxEntries + 1 - Cardinality(dirs))
    /\ dirs0 = dirs
    /\ files0 = files
    /\ flagDry \in BOOLEAN
    /\ path_tools \in SUBSET Tools
    /\ tasks = <<>>
    /\ pc = "start"
    /\ stack = <<>>
    /\ walkErr = Nil
    /\ exitCode = successExitCode
    /\ stdout = <<>>
    /\ procs = <<>>
    /\ listed = <<>>
    /\ runs = <<>>

\* os.Exit(code), or main returning (code 0)
Exit(code) == pc' = "done" /\ exitCode' = code

\* main up to the call of Walk: the path is made absolute, the closures are
\* replaced when -dry is set, the available runners are kept
MainStart ==
    /\ pc = "start"
    /\ \E absOk \in BOOLEAN :
        IF ~absOk
           THEN Exit(errorParseExitCode) /\ UNCHANGED tasks
           ELSE /\ tasks' = SelectSeq(runners, Available)
                /\ IF Len(tasks') = 0
                      THEN Exit(errorParseExitCode)
                      ELSE pc' = "walk" /\ UNCHANGED exitCode
    /\ UNCHANGED <<dirs, files, dirs0, files0, flagDry, path_tools, stack,
                   walkErr, stdout, procs, listed, runs>>

\* main calls Walk(absPath, tasks)
WalkRoot ==
    /\ pc = "walk" /\ stack = <<>> /\ listed = <<>>
    /\ WalkCall(RootPath, <<>>)
    /\ pc' = IF stack' = <<>> THEN "walked" ELSE "walk"
    /\ UNCHANGED <<dirs0, files0, flagDry, path_tools, tasks, exitCode>>

\* the second loop of the innermost call reaches a directory and calls Walk
WalkChild ==
    /\ pc = "walk" /\ stack # <<>> /\ walkErr = Nil
    /\ NextDir(Top) # 0
    /\ LET j == NextDir(Top)
       IN  WalkCall(Join(Top.path, Top.entries[j].name),
                    Append(Caller, [Top EXCEPT !.i = j]))
    /\ UNCHANGED <<dirs0, files0, flagDry, path_tools, tasks, pc, exitCode>>

\* the innermost call returns: the error of its child, or nil at the end of
\* its second loop
WalkReturn ==
    /\ pc = "walk" /\ stack # <<>>
    /\ walkErr # Nil \/ NextDir(Top) = 0
    /\ stack' = Caller
    /\ pc' = IF Caller = <<>> THEN "walked" ELSE "walk"
    /\ UNCHANGED <<dirs, files, dirs0, files0, flagDry, path_tools, tasks,
                   walkErr, exitCode, stdout, procs, listed, runs>>

\* main after Walk
MainAfterWalk ==
    /\ pc = "walked"
    /\ IF walkErr # Nil THEN Exit(errorExitCode)
       ELSE IF ~flagDry THEN pc' = "clearCachesGo" /\ UNCHANGED exitCode
       ELSE Exit(successExitCode)
    /\ UNCHANGED <<dirs, files, dirs0, files0, flagDry, path_tools, tasks,
                   stack, walkErr, stdout, procs, listed, runs>>

NoDir == <<>>

\* the commands of cmds run in order until one fails; n of them succeed
RunAll(cmds, n) ==
    [i \in 1..(IF n < Len(cmds) THEN n + 1 ELSE n) |->
        [cmd |-> cmds[i], dir |-> NoDir, ok |-> i <= n]]

GoCleans == <<"go clean -cache", "go clean -modcache", "go clean -testcache">>

\* a cache-clearing function running cmds, then main's check of its error
ClearCaches(cmds, n, next) ==
    /\ procs' = procs \o RunAll(cmds, n)
    /\ IF n < Len(cmds) THEN Exit(errorExitCode)
       ELSE IF next = "done" THEN Exit(successExitCode)
       ELSE pc' = next /\ UNCHANGED exitCode
    /\ UNCHANGED <<dirs, files, dirs0, files0, flagDry, path_tools, tasks,
                   stack, walkErr, stdout, listed, runs>>

ClearCachesGo ==
    /\ pc = "clearCachesGo"
    /\ \E n \in 0..Len(GoCleans) : ClearCaches(GoCleans, n, "clearCachesComposer")

\* exec finds the command only when the tool is on the PATH
ClearCachesComposer ==
    /\ pc = "clearCachesComposer"
    /\ \E n \in 0..(IF "composer" \in path_tools THEN 1 ELSE 0) :
         ClearCaches(<<"composer --no-interaction clear-cache">>, n, "clearCachesNpm")

ClearCachesNpm ==
    /\ pc = "clearCachesNpm"
    /\ \E n \in 0..(IF "npm" \in path_tools THEN 1 ELSE 0) :
         ClearCaches(<<"npm cache clean --force">>, n, "done")

Next ==
    \/ MainStart
    \/ WalkRoot
    \/ WalkChild
    \/ WalkReturn
    \/ MainAfterWalk
    \/ ClearCachesGo
    \/ ClearCachesComposer
    \/ ClearCachesNpm

Spec == Init /\ [][Next]_vars

-----------------------------------------------------------------------------
(* Vocabulary of the properties. *)

ListedPaths == {listed[i].path : i \in 1..Len(listed)}

AllListedOk == \A i \in 1..Len(listed) : listed[i].ok

\* the Run calls made for directory d
RunsIn(d) == {i \in 1..Len(runs) : Dir(runs[i].path) = d}

\* the entries of d, as the program found them, that are no directories and
\* that an available task matches
Matching0(d) ==
    {f \in files0 : f.dir = d /\ \E k \in 1..Len(tasks) : Matches(tasks[k], f.name)}

PlainMatching0(d) == {f \in Matching0(d) : f.kind = "file"}

\* Walk has returned to main
WalkReturned == pc \in {"walked", "clearCachesGo", "clearCachesComposer",
                        "clearCachesNpm", "done"} /\ tasks # <<>>

\* the directories no proper ancestor of which holds a matching entry
Unshadowed0 ==
    {d \in dirs0 : \A a \in dirs0 : IsProperPrefix(a, d) => Matching0(a) = {}}

CacheCmds ==
    {GoCleans[i] : i \in 1..Len(GoCleans)}
    \cup {"composer --no-interaction clear-cache", "npm cache clean --force"}

-----------------------------------------------------------------------------
(* C1: a listed directory that holds a plain file matching an available    *)
(* task has exactly one Run call, whether or not that call returns an      *)
(* error, and nothing below it is ever listed; no directory has more than  *)
(* one Run call.                                                           *)
C1_FirstMatchShortCircuit ==
    /\ \A i \in 1..Len(listed) :
          (listed[i].ok /\ PlainMatching0(listed[i].path) # {}) =>
              /\ Cardinality(RunsIn(listed[i].path)) = 1
              /\ \A j \in 1..Len(listed) :
                    ~IsProperPrefix(listed[i].path, listed[j].path)
    /\ \A d \in dirs0 : Cardinality(RunsIn(d)) <= 1

\* a matched directory below the root with a subdirectory, its task having
\* returned no error, and the traversal having gone on to a later directory
C1_Witness ==
    /\ pc = "done"
    /\ \E i \in 1..Len(listed) :
          /\ listed[i].ok /\ PlainMatching0(listed[i].path) # {}
          /\ listed[i].path # RootPath
          /\ \E d \in dirs0 : IsProperPrefix(listed[i].path, d)
          /\ i < Len(listed)
          /\ \A k \in RunsIn(listed[i].path) : runs[k].err = "nil"

-----------------------------------------------------------------------------
(* C2 as stated: when plain files of a directory match two or more         *)
(* available tasks, the task that fires is the earliest of them in         *)
(* registration order, wherever the file names stand in the listing.       *)
C2_RegistryOrderWins ==
    \A i \in 1..Len(runs) :
        LET d == Dir(runs[i].path)
            T == {k \in 1..Len(runners) :
                    /\ Available(runners[k])
                    /\ \E f \in files0 : /\ f.dir = d /\ f.kind = "file"
                                         /\ Matches(runners[k], f.name)}
        IN  Cardinality(T) >= 2 =>
                /\ runs[i].task = runners[CHOOSE k \in T : \A j \in T : k <= j]
                /\ Cardinality(RunsIn(d)) = 1

(* C2 as amended: the task that fires in a directory is the one matching   *)
(* the first entry, in the order of the listing (sorted by name), that is  *)
(* no directory and that an available task matches; among the tasks        *)
(* matching that name it is the earliest registered; only it fires.        *)
C2_ListingOrderWins ==
    \A i \in 1..Len(runs) :
        LET d == Dir(runs[i].path)
            n == Base(runs[i].path)
        IN  /\ \E f \in Matching0(d) : f.name = n
            /\ \A f \in Matching0(d) :
                  f.name = n \/ StringLess(Bytes(n), Bytes(f.name))
            /\ \E k \in 1..Len(runners) :
                  /\ runners[k] = runs[i].task
                  /\ Available(runners[k]) /\ Matches(runners[k], n)
                  /\ \A j \in 1..(k - 1) :
                        ~(Available(runners[j]) /\ Matches(runners[j], n))
            /\ Cardinality(RunsIn(d)) = 1

\* cargo fires in a directory that also holds composer.json, composer being
\* available and registered before cargo
C2_Witness ==
    \E i \in 1..Len(runs) :
        /\ runs[i].task = "cargo"
        /\ Available("composer")
        /\ \E f \in files0 : /\ f.dir = Dir(runs[i].path) /\ f.kind = "file"
                             /\ f.name = "composer.json"

-----------------------------------------------------------------------------
(* C3: with -dry set the file system stays as it was found and no external *)
(* command is run, neither a clean command nor a cache-clearing command.   *)
C3_DryRunTouchesNothing ==
    flagDry => /\ dirs = dirs0
               /\ files = files0
               /\ procs = <<>>

\* a finished dry run with a match beside the directory that its task
\* removes without -dry
C3_Witness ==
    /\ flagDry /\ pc = "done" /\ exitCode = successExitCode
    /\ \E i \in 1..Len(runs) :
          /\ runs[i].task \in {"composer", "npm"}
          /\ RemoveTarget(runs[i].task, runs[i].path) \in dirs

-----------------------------------------------------------------------------
(* C4: without -dry, a removal by the composer or npm task that fails for  *)
(* another reason than the target being absent makes Run return an error,  *)
(* Walk return it and the process exit with code 1; an absent target is no *)
(* error.                                                                  *)
C4_RemovalFailureIsFatal ==
    \A i \in 1..Len(runs) :
        (runs[i].task \in {"composer", "npm"} /\ ~flagDry) =>
            /\ (runs[i].res # "nil" /\ ~IsNotExist(runs[i].res)) =>
                  /\ runs[i].err # "nil"
                  /\ i = Len(runs)
                  /\ walkErr # Nil
                  /\ pc = "done" => exitCode = errorExitCode
            /\ runs[i].res = "nil" => runs[i].err = "nil"

-----------------------------------------------------------------------------
(* C5: a failing listing is the last listing of the run; Walk's error is   *)
(* the error naming that directory; no task runs after it (every Run call  *)
(* belongs to an earlier, successful listing), no cache-clearing command   *)
(* runs, and the process exits with code 1.                                *)
C5_ListingFailureIsFailFast ==
    /\ \A i \in 1..Len(listed) :
          ~listed[i].ok =>
              /\ i = Len(listed)
              /\ walkErr = Err("failed to read file entries of directory", listed[i].path)
              /\ \A k \in 1..Len(runs) :
                    \E j \in 1..(i - 1) :
                        listed[j].ok /\ listed[j].path = Dir(runs[k].path)
              /\ \A k \in 1..Len(procs) : procs[k].cmd \notin CacheCmds
              /\ pc \in {"walk", "walked", "done"}
              /\ pc = "done" => exitCode = errorExitCode

\* the listing of node_modules under the root fails after the root was
\* listed; its sibling vendor is never listed; the process has exited
C5_Witness ==
    /\ pc = "done"
    /\ <<"vendor">> \in dirs0
    /\ <<"vendor">> \notin ListedPaths
    /\ Len(listed) = 2
    /\ listed[2] = [path |-> <<"node_modules">>, ok |-> FALSE]

-----------------------------------------------------------------------------
(* C6: standard output holds exactly one line per Run call, the path of    *)
(* the matched file, with or without -dry.                                 *)
C6_OneLinePerMatch ==
    /\ Len(stdout) = Len(runs)
    /\ \A i \in 1..Len(runs) : i <= Len(stdout) /\ stdout[i] = runs[i].path

-----------------------------------------------------------------------------
(* C7: when no plain file of the tree matches an available task and every  *)
(* listing succeeds, Walk lists every directory exactly once and nothing   *)
(* that is no directory, prints nothing, runs no task and returns no       *)
(* error.                                                                  *)
C7_FullCoverageWithoutMatch ==
    (/\ WalkReturned
     /\ AllListedOk
     /\ \A d \in dirs0 : PlainMatching0(d) = {})
    => /\ ListedPaths = dirs0
       /\ Len(listed) = Cardinality(dirs0)
       /\ stdout = <<>>
       /\ runs = <<>>
       /\ walkErr = Nil

-----------------------------------------------------------------------------
(* C8: a Run call of the dotnet task returns no error, also when the clean *)
(* command exits non-zero; when such exits are the only failures of the    *)
(* traversal, Walk returns no error and has listed every directory that no *)
(* matched ancestor shadows, each once.                                    *)
C8_DotnetCleanIsTolerated ==
    /\ \A i \in 1..Len(runs) : runs[i].task = "dotnet" => runs[i].err = "nil"
    /\ (/\ WalkReturned
        /\ AllListedOk
        /\ \A i \in 1..Len(runs) : runs[i].res # "nil" => runs[i].task = "dotnet")
       => /\ walkErr = Nil
          /\ ListedPaths = Unshadowed0
          /\ Len(listed) = Cardinality(Unshadowed0)

\* `dotnet clean` exited non-zero in one directory, a directory was listed
\* after it, and the process ended with code 0
C8_Witness ==
    /\ pc = "done" /\ exitCode = successExitCode /\ ~flagDry
    /\ \E i \in 1..Len(runs) :
          /\ runs[i].task = "dotnet" /\ runs[i].res # "nil"
          /\ \E j \in 1..Len(listed) :
                /\ listed[j].path = Dir(runs[i].path)
                /\ j < Len(listed)

-----------------------------------------------------------------------------
\* the run of C9, ended: no -dry, npm on the PATH, the root path resolved,
\* the root holding the plain file package.json and the directory
\* node_modules, and no call on the file system failing
C9_Scenario ==
    /\ pc = "done" /\ ~flagDry /\ tasks # <<>>
    /\ "npm" \in path_tools
    /\ [dir |-> RootPath, name |-> "package.json", kind |-> "file"] \in files0
    /\ <<"node_modules">> \in dirs0
    /\ AllListedOk
    /\ \A i \in 1..Len(runs) : runs[i].res # "EPERM"

C9_Outcome ==
    /\ \E i \in 1..Len(stdout) : stdout[i] = <<"package.json">>
    /\ <<"node_modules">> \notin dirs
    /\ exitCode = successExitCode

-----------------------------------------------------------------------------
(* C10: directories are listed in breadth-first order: no directory is     *)
(* listed before a directory nearer to the root.                           *)
C10_BreadthFirst ==
    \A i \in 1..Len(listed) : \A j \in i..Len(listed) :
        Len(listed[i].path) <= Len(listed[j].path)

====
